---- MODULE Spec2Model ----
(***************************************************************************)
(* The live voice agent of src/LiveVoiceAgent.tsx as a state machine: the  *)
(* React state and refs of one mounted component, the streaming sessions   *)
(* it has opened, the microphone pipelines it has built and the buffer     *)
(* sources it has started.  Every handler of the component is one action;  *)
(* the handlers run to completion on one thread and interleave only at     *)
(* their awaits.  The collaborators of src/server.ts and src/App.tsx (the   *)
(* retry wrapper of the one-shot calls, the history store, the upload       *)
(* handler) are state machines of their own over their own variables, each  *)
(* with its own next-state relation.                                        *)
(***************************************************************************)
EXTENDS Integers, Sequences, FiniteSets, TLC

\* Bounds of the model (not constants of the program).
MaxSessions == 1         \* connect attempts made during a run of Spec
ReconnectSessions == 2   \* connect attempts made during a run of SpecReconnect
MaxChunks == 4           \* audio payloads received during a run with one connect attempt
ReconnectChunks == 1     \* audio payloads received during a run with several
MaxFrames == 1           \* capture frames delivered during one run
MaxPosts == 3            \* rows inserted into the history table during one run
MaxClock == 1            \* seconds the clock of the history store advances during one run
MaxUploads == 2          \* files chosen for upload during one run
MaxPcmBytes == 3         \* bytes of audio in one response of the speech service

VARIABLES
  isConnected,      \* useState, line 12
  isConnecting,     \* useState, line 13
  isListening,      \* useState, line 14
  error,            \* useState, line 16
  lang,             \* prop lang
  mounted,          \* the component is mounted
  connectClosure,   \* what the memoized connect (useCallback) closes over
  audioContextRef,  \* useRef, 0 is null, otherwise an index into mics
  streamRef,        \* useRef, 0 is null, otherwise an index into mics
  sessionRef,       \* useRef, 0 is null, otherwise an index into sessions
  audioQueue,       \* useRef<Int16Array[]>: chunk ids in queue order
  isPlaying,        \* useRef(false)
  sessions,         \* every ai.live.connect call made so far
  mics,             \* every stream + AudioContext + processor built by startMic
  sources,          \* buffer sources started and not yet ended
  hasMediaDevices,  \* navigator.mediaDevices.getUserMedia exists
  arrived,          \* history: audio payloads received (chunk ids are 1..arrived)
  lastStarted,      \* history: id of the chunk source.start() was last called for, 0 if none
  cutoff,           \* history: highest chunk id received when the last interruption was handled
  delivered,        \* history: capture frames delivered to onaudioprocess
  sent,             \* history: sendRealtimeInput calls made
  \* withRetry of src/server.ts, one call of it
  pcRetry,          \* "idle", "calling" (await fn()), "waiting" (await setTimeout),
                    \* "returned" or "thrown"
  retries,          \* parameter retries of the running withRetry frame
  delay,            \* parameter delay of the running withRetry frame
  calls,            \* history: the outcome of every fn() invoked so far, in order
  waits,            \* history: the delays waited so far, in order
  settled,          \* what withRetry returned or threw
  \* the history store of src/server.ts
  rows,             \* the rows of table history
  sqliteSequence,   \* AUTOINCREMENT: the largest rowid ever given to a row
  now,              \* the clock, in seconds: CURRENT_TIMESTAMP
  response,         \* the last response sent by a history route
  inserted,         \* history: the id of every row ever inserted
  \* the upload handler of src/App.tsx (lang is the App state the agent gets as prop)
  image,            \* useState, line 75: 0 is null, otherwise the number of the file
  analyzing,        \* useState, line 76
  signal,           \* useState, line 77: "none" is null
  appError,         \* useState, line 81
  jobs,             \* every file accepted by handleFileUpload, with its processImage run
  followed,         \* history: the jobs that went on to fetchHistory() and speakSignal()
  \* the sample conversions of src/LiveVoiceAgent.tsx, applied to one capture frame
  pcCapture,        \* "idle", "framed", "resampled", "encoded" or "decoded"
  sampleRate,       \* audioContext.sampleRate of the frame, 0 before there is one
  inputData,        \* e.inputBuffer.getChannelData(0)
  resampledData,    \* resample(inputData, audioContext.sampleRate, targetSampleRate)
  pcm16,            \* the Int16Array the frame is encoded into
  float32,          \* the Float32Array playNextChunk decodes such an Int16Array into
  pcWav,            \* generateSpeech: "idle", "received" (the audio part is read), "wrapped", "failed"
  pcm,              \* the bytes of audio the speech service encoded
  pcmBase64,        \* base64Audio, the characters as their indices in the alphabet, "=" as 64
  wavUrl            \* what addWavHeader returned: the scheme and the base64 characters after it

\* The variables of withRetry.
retry == <<pcRetry, retries, delay, calls, waits, settled>>

\* The variables of the voice agent.
agent == <<isConnected, isConnecting, isListening, error, lang, mounted, connectClosure,
           audioContextRef, streamRef, sessionRef, audioQueue, isPlaying,
           sessions, mics, sources, hasMediaDevices,
           arrived, lastStarted, cutoff, delivered, sent>>

\* The variables of the history store.
store == <<rows, sqliteSequence, now, response, inserted>>

\* The variables of the upload handler.
upload == <<image, analyzing, signal, appError, jobs, followed>>

\* The variables of the sample conversions.
samples == <<pcCapture, sampleRate, inputData, resampledData, pcm16, float32>>

\* The variables of addWavHeader.
wav == <<pcWav, pcm, pcmBase64, wavUrl>>

\* The variables the voice agent never touches.
elsewhere == <<retry, store, upload, samples, wav>>

vars == <<agent, elsewhere>>

flags == <<isConnected, isConnecting, isListening>>
refs == <<audioContextRef, streamRef, sessionRef>>
playback == <<audioQueue, isPlaying, sources, arrived, lastStarted, cutoff>>
capture == <<delivered, sent>>
props == <<lang, mounted, connectClosure, hasMediaDevices>>

NoError == [kind |-> "none", text |-> "en"]

\* A message set with setError: which message, and the language of its text.
Message(kind, l) == [kind |-> kind, text |-> l]

\* A useState setter called with value: React drops the update once the
\* component is unmounted.
SetState(current, value) == IF mounted THEN value ELSE current

----------------------------------------------------------------------------
\* Pure parts of the handlers.

\* playNextChunk taking the newest chunk instead of the head of the queue.
playNextChunkNewest(queue, ctx) ==
  IF Len(queue) = 0 \/ ctx = 0
    THEN [audioQueue |-> queue, isPlaying |-> FALSE, started |-> <<>>]
    ELSE [audioQueue |-> SubSeq(queue, 1, Len(queue) - 1), isPlaying |-> TRUE,
          started |-> <<queue[Len(queue)]>>]

\* playNextChunk: the queue, the flag and the chunk started (if any).
playNextChunk(queue, ctx) ==
  IF Len(queue) = 0 \/ ctx = 0
    THEN [audioQueue |-> queue, isPlaying |-> FALSE, started |-> <<>>]
    ELSE [audioQueue |-> Tail(queue), isPlaying |-> TRUE, started |-> <<Head(queue)>>]

\* The audio branch of onmessage: push the chunk, start playback when idle.
onAudio(queue, playing, ctx, chunk) ==
  IF ~playing
    THEN playNextChunk(Append(queue, chunk), ctx)
    ELSE [audioQueue |-> Append(queue, chunk), isPlaying |-> playing, started |-> <<>>]

\* The interrupted branch clearing the flag but keeping the queue.
onInterruptedKeepQueue(r) ==
  [audioQueue |-> r.audioQueue, isPlaying |-> FALSE, started |-> r.started]

\* The interrupted branch of onmessage, applied to what the audio branch left.
onInterrupted(r) ==
  [audioQueue |-> <<>>, isPlaying |-> FALSE, started |-> r.started]

\* stopAll on the microphone pipelines: stop the tracks of streamRef.current,
\* close audioContextRef.current.  Neither ref is reset.
stopAll(ms, sref, cref) ==
  [m \in DOMAIN ms |->
     [ms[m] EXCEPT !.stopped = @ \/ (m = sref), !.closed = @ \/ (m = cref)]]

\* The sources a chunk started by playNextChunk adds.
Started(r, ctx) == {[chunk |-> r.started[k], ctx |-> ctx] : k \in DOMAIN r.started}

----------------------------------------------------------------------------
Init ==
  /\ isConnected = FALSE
  /\ isConnecting = FALSE
  /\ isListening = FALSE
  /\ error = NoError
  /\ lang = "en"      \* App: useState<Language>('en')
  /\ mounted = TRUE
  /\ connectClosure = [isConnected |-> FALSE, lang |-> lang]
  /\ audioContextRef = 0
  /\ streamRef = 0
  /\ sessionRef = 0
  /\ audioQueue = <<>>
  /\ isPlaying = FALSE
  /\ sessions = <<>>
  /\ mics = <<>>
  /\ sources = {}
  /\ hasMediaDevices \in BOOLEAN
  /\ arrived = 0
  /\ lastStarted = 0
  /\ cutoff = 0
  /\ delivered = 0
  /\ sent = 0
  /\ pcRetry = "idle"
  /\ retries = 0
  /\ delay = 0
  /\ calls = <<>>
  /\ waits = <<>>
  /\ settled = [ok |-> FALSE, n |-> 0]
  /\ rows = {}
  /\ sqliteSequence = 0
  /\ now = 0
  /\ response = [status |-> 0, kind |-> "none", id |-> 0, list |-> <<>>]
  /\ inserted = {}
  /\ image = 0
  /\ analyzing = FALSE
  /\ signal = "none"
  /\ appError = NoError
  /\ jobs = <<>>
  /\ followed = {}
  /\ pcCapture = "idle"
  /\ sampleRate = 0
  /\ inputData = [den |-> 1, length |-> 0, at |-> <<>>]
  /\ resampledData = [den |-> 1, length |-> 0, at |-> <<>>]
  /\ pcm16 = [length |-> 0, at |-> <<>>]
  /\ float32 = [den |-> 1, length |-> 0, at |-> <<>>]
  /\ pcWav = "idle"
  /\ pcm = <<>>
  /\ pcmBase64 = <<>>
  /\ wavUrl = [scheme |-> "", base64 |-> <<>>]

----------------------------------------------------------------------------
\* The user.

\* The button while it shows the microphone: onClick = connect, disabled
\* while isConnecting.  connect() up to its await of ai.live.connect, in a run
\* that makes at most limit connect attempts.
Connect(limit) ==
  /\ mounted /\ ~isConnected /\ ~isConnecting
  /\ Len(sessions) < limit
  /\ Len(sessions) > 0 => arrived <= ReconnectChunks
  /\ isConnecting' = TRUE
  /\ error' = NoError
  /\ sessions' = Append(sessions,
       [ws |-> "connecting", mic |-> "none",
        cap |-> connectClosure.isConnected, lang |-> connectClosure.lang])
  /\ UNCHANGED <<elsewhere, isConnected, isListening, refs, playback, capture, props, mics>>

ClickConnect == Connect(MaxSessions)

\* The same click in a run that may connect again after a session has ended.
ClickReconnect == Connect(ReconnectSessions)

\* The button while connected: onClick = stopAll.
ClickStop ==
  /\ mounted /\ isConnected /\ ~isConnecting
  /\ mics' = stopAll(mics, streamRef, audioContextRef)
  /\ isConnected' = FALSE
  /\ isListening' = FALSE
  /\ isConnecting' = FALSE
  /\ UNCHANGED <<elsewhere, error, refs, playback, capture, props, sessions>>

\* The language button of App: the lang prop changes, and useCallback
\* memoizes a new connect that closes over the render it was made in.
ToggleLang ==
  /\ mounted
  /\ lang' = IF lang = "en" THEN "bn" ELSE "en"
  /\ connectClosure' = [isConnected |-> isConnected, lang |-> lang']
  /\ UNCHANGED <<elsewhere, flags, error, mounted, hasMediaDevices, refs, playback, capture,
                 sessions, mics>>

\* The component is removed: the cleanup of useEffect runs stopAll.
Unmount ==
  /\ mounted
  /\ mounted' = FALSE
  /\ mics' = stopAll(mics, streamRef, audioContextRef)
  /\ isConnected' = FALSE
  /\ isListening' = FALSE
  /\ isConnecting' = FALSE
  /\ UNCHANGED <<elsewhere, error, lang, connectClosure, hasMediaDevices, refs, playback,
                 capture, sessions>>

----------------------------------------------------------------------------
\* The streaming session's callbacks and the result of ai.live.connect.

\* The session opens.  The client calls onopen and, in the same task, resolves
\* the promise of ai.live.connect: onopen with startMic() up to its first
\* await, then sessionRef.current = session.
OnOpen(i) ==
  /\ sessions[i].ws = "connecting"
  /\ isConnected' = SetState(isConnected, TRUE)
  /\ isConnecting' = SetState(isConnecting, FALSE)
  /\ IF hasMediaDevices
       THEN /\ sessions' = [sessions EXCEPT ![i].ws = "open", ![i].mic = "enum"]
            /\ error' = error
       ELSE /\ sessions' = [sessions EXCEPT ![i].ws = "open", ![i].mic = "done"]
            /\ error' = SetState(error, Message("Unsupported", sessions[i].lang))
  /\ sessionRef' = i
  /\ UNCHANGED <<elsewhere, isListening, audioContextRef, streamRef, playback, capture, props, mics>>

\* ai.live.connect rejects, the session never having opened: the catch
\* block of connect.
ConnectReject(i, quota) ==
  /\ sessions[i].ws = "connecting"
  /\ error' = SetState(error, IF quota THEN Message("Quota", sessions[i].lang)
                                        ELSE Message("InitFailed", "en"))
  /\ isConnecting' = SetState(isConnecting, FALSE)
  /\ sessions' = [sessions EXCEPT ![i].ws = "rejected"]
  /\ UNCHANGED <<elsewhere, isConnected, isListening, refs, playback, capture, props, mics>>

\* The audio payloads a run may still receive.
ChunkLimit == IF Len(sessions) > 1 THEN ReconnectChunks ELSE MaxChunks

\* onmessage: an audio payload, an interruption signal, or both in one message.
OnMessage(i, audio, interrupted) ==
  /\ sessions[i].ws = "open"
  /\ audio \/ interrupted
  /\ audio => arrived < ChunkLimit
  /\ LET a == IF audio
                THEN onAudio(audioQueue, isPlaying, audioContextRef, arrived + 1)
                ELSE [audioQueue |-> audioQueue, isPlaying |-> isPlaying, started |-> <<>>]
         r == IF interrupted THEN onInterrupted(a) ELSE a
     IN /\ audioQueue' = r.audioQueue
        /\ isPlaying' = r.isPlaying
        /\ sources' = sources \cup Started(r, audioContextRef)
        /\ lastStarted' = IF r.started = <<>> THEN lastStarted ELSE r.started[1]
        /\ arrived' = IF audio THEN arrived + 1 ELSE arrived
        /\ cutoff' = IF interrupted THEN arrived' ELSE cutoff
  /\ UNCHANGED <<elsewhere, flags, error, refs, capture, props, sessions, mics>>

\* onerror: the transport failed, for a quota condition of the remote
\* endpoint or for another reason; the handler does not look at err.  A failed
\* WebSocket fires its error event and then its close event in one task, so
\* the onerror handler and the onclose handler run back to back.
OnError(i, quota) ==
  /\ sessions[i].ws \in {"connecting", "open"}
  /\ sessions' = [sessions EXCEPT ![i].ws = "closed"]
  /\ error' = SetState(error, Message("ConnectionError", "en"))
  /\ mics' = stopAll(stopAll(mics, streamRef, audioContextRef), streamRef, audioContextRef)
  /\ isConnected' = SetState(isConnected, FALSE)
  /\ isListening' = SetState(isListening, FALSE)
  /\ isConnecting' = SetState(isConnecting, FALSE)
  /\ UNCHANGED <<elsewhere, refs, playback, capture, props>>

\* onclose: the remote end closed the session.
OnClose(i) ==
  /\ sessions[i].ws \in {"connecting", "open"}
  /\ sessions' = [sessions EXCEPT ![i].ws = "closed"]
  /\ mics' = stopAll(mics, streamRef, audioContextRef)
  /\ isConnected' = SetState(isConnected, FALSE)
  /\ isListening' = SetState(isListening, FALSE)
  /\ isConnecting' = SetState(isConnecting, FALSE)
  /\ UNCHANGED <<elsewhere, error, refs, playback, capture, props>>

----------------------------------------------------------------------------
\* startMic after its first await, one run per onopen.

\* The user message of startMic's catch block for an error of that name.
micErrorMessage(name, l) ==
  IF name \in {"NotFoundError", "DevicesNotFoundError", "OverconstrainedError"}
    THEN Message("NoMic", l)
    ELSE IF name \in {"NotAllowedError", "PermissionDeniedError"}
           THEN Message("Denied", l)
           ELSE Message("MicError", l)

\* The catch block of startMic: setError(userMessage); stopAll().
MicCatch(i, name) ==
  /\ error' = SetState(error, micErrorMessage(name, sessions[i].lang))
  /\ mics' = stopAll(mics, streamRef, audioContextRef)
  /\ isConnected' = SetState(isConnected, FALSE)
  /\ isListening' = SetState(isListening, FALSE)
  /\ isConnecting' = SetState(isConnecting, FALSE)
  /\ sessions' = [sessions EXCEPT ![i].mic = "done"]
  /\ UNCHANGED <<elsewhere, refs, playback, capture, props>>

\* enumerateDevices resolves: with no audio input startMic throws NotFoundError.
MicEnumerated(i, hasMic) ==
  /\ sessions[i].mic = "enum"
  /\ IF hasMic
       THEN /\ sessions' = [sessions EXCEPT ![i].mic = "gum"]
            /\ UNCHANGED <<elsewhere, flags, error, refs, playback, capture, props, mics>>
       ELSE MicCatch(i, "NotFoundError")

\* getUserMedia resolves: the stream, the AudioContext and the processor are
\* built, both refs point at them, setIsListening(true).
MicGranted(i) ==
  /\ sessions[i].mic = "gum"
  /\ mics' = Append(mics, [stopped |-> FALSE, closed |-> FALSE, cap |-> sessions[i].cap])
  /\ streamRef' = Len(mics) + 1
  /\ audioContextRef' = Len(mics) + 1
  /\ isListening' = SetState(isListening, TRUE)
  /\ sessions' = [sessions EXCEPT ![i].mic = "done"]
  /\ UNCHANGED <<elsewhere, isConnected, isConnecting, error, sessionRef, playback, capture, props>>

\* getUserMedia rejects.
MicFailed(i, name) ==
  /\ sessions[i].mic = "gum"
  /\ MicCatch(i, name)

\* processor.onaudioprocess of pipeline m: fires while its AudioContext runs.
\* isConnected is the value the startMic that built the pipeline closed over.
OnAudioProcess(m) ==
  /\ ~mics[m].closed
  /\ delivered < MaxFrames
  /\ delivered' = delivered + 1
  /\ sent' = IF sessionRef = 0 \/ ~mics[m].cap THEN sent ELSE sent + 1
  /\ UNCHANGED <<elsewhere, flags, error, refs, playback, props, sessions, mics>>

\* source.onended = playNextChunk: fires while the source's AudioContext runs.
OnEnded(s) ==
  /\ ~mics[s.ctx].closed
  /\ LET r == playNextChunk(audioQueue, audioContextRef)
     IN /\ audioQueue' = r.audioQueue
        /\ isPlaying' = r.isPlaying
        /\ sources' = (sources \ {s}) \cup Started(r, audioContextRef)
        /\ lastStarted' = IF r.started = <<>> THEN lastStarted ELSE r.started[1]
  /\ UNCHANGED <<elsewhere, flags, error, refs, arrived, cutoff, capture, props, sessions, mics>>

----------------------------------------------------------------------------
MicErrorNames == {"NotAllowedError", "NotFoundError", "AbortError"}

Next ==
  \/ ClickConnect
  \/ ClickStop
  \/ ToggleLang
  \/ Unmount
  \/ \E i \in DOMAIN sessions : OnOpen(i)
  \/ \E i \in DOMAIN sessions, quota \in BOOLEAN : ConnectReject(i, quota)
  \/ \E i \in DOMAIN sessions, audio \in BOOLEAN, interrupted \in BOOLEAN :
       OnMessage(i, audio, interrupted)
  \/ \E i \in DOMAIN sessions, quota \in BOOLEAN : OnError(i, quota)
  \/ \E i \in DOMAIN sessions : OnClose(i)
  \/ \E i \in DOMAIN sessions, hasMic \in BOOLEAN : MicEnumerated(i, hasMic)
  \/ \E i \in DOMAIN sessions : MicGranted(i)
  \/ \E i \in DOMAIN sessions, name \in MicErrorNames : MicFailed(i, name)
  \/ \E m \in DOMAIN mics : OnAudioProcess(m)
  \/ \E s \in sources : OnEnded(s)

Spec == Init /\ [][Next]_vars

\* The same component, in runs that may connect a second time.
NextReconnect == Next \/ ClickReconnect

SpecReconnect == Init /\ [][NextReconnect]_vars

----------------------------------------------------------------------------
\* Playback.

\* The sources that are sounding: started, not ended, on a running AudioContext.
Playing == {s \in sources : ~mics[s.ctx].closed}

\* C1: at most one playback cycle runs at a time: no chunk is started while
\* an earlier one still awaits its onended callback.
C1_SinglePlaybackCycle == Cardinality(Playing) <= 1

\* C2: with no interruption the chunks are started in arrival order, each
\* once, one per playback cycle (the chunks not yet started are exactly the
\* queue, in arrival order), and once the last chunk received has ended the
\* queue is empty and isPlaying is false.
C2_FifoPlayback ==
  cutoff = 0 =>
    /\ lastStarted <= arrived
    /\ audioQueue = [k \in 1..(arrived - lastStarted) |-> lastStarted + k]
    /\ (arrived > 0 /\ lastStarted = arrived /\ sources = {}) =>
         (audioQueue = <<>> /\ ~isPlaying)

\* Three chunks received without interruption have all been played to the end.
C2_Witness ==
  /\ cutoff = 0 /\ arrived = 3 /\ lastStarted = 3
  /\ sources = {} /\ audioQueue = <<>> /\ ~isPlaying

\* C3: when the onmessage handler of an interruption signal returns, the
\* queue is empty and isPlaying is false, and no chunk received up to an
\* interruption is started after it.
C3_InterruptionDiscards ==
  /\ [][(\E i \in DOMAIN sessions, audio \in BOOLEAN : OnMessage(i, audio, TRUE))
          => (audioQueue' = <<>> /\ ~isPlaying')]_vars
  /\ [][lastStarted' # lastStarted => lastStarted' > cutoff]_vars

\* Chunk 1 is sounding, chunks 2 and 3 were queued and an interruption has
\* discarded them.
C3_Witness ==
  /\ cutoff = 3 /\ lastStarted = 1 /\ Playing # {}
  /\ audioQueue = <<>> /\ ~isPlaying

----------------------------------------------------------------------------
\* Session lifecycle and teardown.

\* The sessions that are live: created by ai.live.connect and not closed.
Live == {i \in DOMAIN sessions : sessions[i].ws \in {"connecting", "open"}}

\* A step that runs stopAll.
StopAllStep ==
  \/ ClickStop
  \/ Unmount
  \/ \E i \in DOMAIN sessions, quota \in BOOLEAN : OnError(i, quota)
  \/ \E i \in DOMAIN sessions : OnClose(i)
  \/ \E i \in DOMAIN sessions : MicEnumerated(i, FALSE)
  \/ \E i \in DOMAIN sessions, name \in MicErrorNames : MicFailed(i, name)

\* C4: at most one live session exists in every reachable state.
C4_AtMostOneLiveSession == Cardinality(Live) <= 1

\* C5: ai.live.connect is never invoked while an earlier connect attempt is
\* in flight or a session is connected.
C5_ConnectGuard == [][(ClickConnect \/ ClickReconnect) => Live = {}]_vars

\* C6: teardown from Connected+Listening leaves the tracks of the capture
\* stream stopped, the audio pipeline closed, the queue empty and the three
\* flags false.
C6_TeardownReleases ==
  [][(isConnected /\ isListening /\ StopAllStep) =>
       /\ mics'[streamRef].stopped
       /\ mics'[audioContextRef].closed
       /\ audioQueue' = <<>>
       /\ ~isConnected' /\ ~isListening' /\ ~isConnecting']_vars

\* The state a teardown leaves: the flags false, the stream and the pipeline
\* the refs hold released.
TornDown ==
  /\ ~isConnected /\ ~isListening /\ ~isConnecting
  /\ streamRef # 0 => mics[streamRef].stopped
  /\ audioContextRef # 0 => mics[audioContextRef].closed

\* Every resource handle of the bridge is released.
Released ==
  /\ streamRef # 0 => mics[streamRef].stopped
  /\ audioContextRef # 0 => mics[audioContextRef].closed
  /\ sessionRef # 0 => sessionRef \notin Live
  /\ audioQueue = <<>>

\* C7: a teardown that follows a teardown changes nothing and leaves every
\* resource handle (capture stream, audio pipeline, session, queue) released.
C7_IdempotentTeardown ==
  [][(TornDown /\ StopAllStep) =>
       (mics' = mics /\ flags' = flags /\ Released')]_vars

----------------------------------------------------------------------------
\* Capture.

\* C8: while Connected+Listening with an active session, every frame
\* delivered to onaudioprocess results in exactly one sendRealtimeInput call.
C8_EveryFrameSent ==
  [][(/\ isConnected /\ isListening
      /\ sessionRef \in Live
      /\ OnAudioProcess(streamRef)) => sent' = sent + 1]_vars

\* C9: with no active session (not connected yet, or torn down) a captured
\* frame causes no send.
C9_FrameDroppedWhenInactive ==
  [][(/\ sessionRef = 0 \/ (~isConnected /\ ~isConnecting)
      /\ \E m \in DOMAIN mics : OnAudioProcess(m)) => sent' = sent]_vars

\* No callback of a session is still pending.
Quiescent ==
  \A i \in DOMAIN sessions :
    sessions[i].ws # "connecting" /\ sessions[i].mic \notin {"enum", "gum"}

\* C10: once the component is shut down and the callbacks pending at that
\* moment have completed, no capture device or audio pipeline is held and
\* the three flags are false.
C10_ShutdownReleases ==
  (~mounted /\ Quiescent) =>
    /\ \A m \in DOMAIN mics : mics[m].stopped /\ mics[m].closed
    /\ ~isConnected /\ ~isListening /\ ~isConnecting

----------------------------------------------------------------------------
\* Errors of the streaming session and of capture start.

\* A step in which the streaming session fails: onerror, or a rejected connect.
SessionErrorStep ==
  \/ \E i \in DOMAIN sessions, quota \in BOOLEAN : OnError(i, quota)
  \/ \E i \in DOMAIN sessions, quota \in BOOLEAN : ConnectReject(i, quota)

\* C11: every error of the streaming session (onerror, or a rejected connect)
\* leaves the three flags false and an error message set, and a connect
\* attempt is only ever started by the user.
C11_SessionErrorToIdle ==
  /\ [][(mounted /\ SessionErrorStep) =>
          /\ ~isConnecting' /\ ~isConnected' /\ ~isListening'
          /\ error' # NoError]_vars
  /\ [][Len(sessions') > Len(sessions) => (ClickConnect \/ ClickReconnect)]_vars

\* A step in which the streaming session fails for a quota condition.
QuotaStep ==
  \/ \E i \in DOMAIN sessions : OnError(i, TRUE)
  \/ \E i \in DOMAIN sessions : ConnectReject(i, TRUE)

\* C12: however a quota condition is delivered (rejected connect, or onerror),
\* the message set is the quota message, which is not the message of a generic
\* transport error.
C12_QuotaDistinguished ==
  [][(mounted /\ QuotaStep) =>
       (error'.kind = "Quota" /\ error'.kind # "ConnectionError")]_vars

\* A step in which capture start fails: no capture API, no audio input
\* enumerable, or the user declines.
CaptureFailureStep ==
  \/ \E i \in DOMAIN sessions : OnOpen(i) /\ ~hasMediaDevices
  \/ \E i \in DOMAIN sessions : MicEnumerated(i, FALSE)
  \/ \E i \in DOMAIN sessions : MicFailed(i, "NotAllowedError")

\* C13: each capture-start failure sets an error message and leaves the three
\* flags false, and a startMic that has ended is never run again.
C13_CaptureFailureTeardown ==
  /\ [][(mounted /\ CaptureFailureStep) =>
          /\ error'.kind \in {"Unsupported", "NoMic", "Denied"}
          /\ ~isConnected' /\ ~isListening' /\ ~isConnecting']_vars
  /\ [][\A i \in DOMAIN sessions :
          sessions[i].mic = "done" => sessions'[i].mic = "done"]_vars

----------------------------------------------------------------------------
\* The flags against the resources they stand for.

\* The microphone is held: a capture stream exists whose tracks are not stopped.
MicrophoneHeld == \E m \in DOMAIN mics : ~mics[m].stopped

\* C26: the agent is never marked listening, and never holds the microphone,
\* while it is not connected; and while it is marked listening the stream of
\* streamRef is held.
C26_ListeningImpliesConnected ==
  mounted =>
    /\ isListening => (isConnected /\ streamRef # 0 /\ ~mics[streamRef].stopped)
    /\ MicrophoneHeld => isConnected

\* C27: no chunk is stranded in the queue: while chunks are queued and
\* isPlaying is false, a started chunk is sounding whose completion callback
\* will take the next chunk from the queue.
C27_NoChunkStranded ==
  (audioQueue # <<>> /\ ~isPlaying) => Playing # {}

\* A connect attempt is in flight: ai.live.connect has neither opened nor failed.
InFlight == {i \in DOMAIN sessions : sessions[i].ws = "connecting"}

\* A callback of session i: of the session itself or of the startMic it started.
CallbackOf(i) ==
  \/ OnOpen(i)
  \/ \E quota \in BOOLEAN : ConnectReject(i, quota)
  \/ \E audio \in BOOLEAN, interrupted \in BOOLEAN : OnMessage(i, audio, interrupted)
  \/ \E quota \in BOOLEAN : OnError(i, quota)
  \/ OnClose(i)
  \/ \E hasMic \in BOOLEAN : MicEnumerated(i, hasMic)
  \/ MicGranted(i)
  \/ \E name \in MicErrorNames : MicFailed(i, name)

\* C28: isConnecting and isConnected are never both true, isConnecting is
\* true exactly while a connect attempt is in flight, and no callback of an
\* earlier session changes the flags while a later connect attempt is in flight.
C28_ConnectingExactlyInFlight ==
  /\ [](mounted => (~(isConnecting /\ isConnected) /\ (isConnecting <=> InFlight # {})))
  /\ [][\A i \in DOMAIN sessions :
          (mounted /\ CallbackOf(i) /\ (\E j \in InFlight : j > i)) => flags' = flags]_vars

----------------------------------------------------------------------------
\* withRetry of src/server.ts, as analyzeChart and generateSpeech call it:
\* withRetry(() => ai.models.generateContent(...)), both parameters defaulted.

DefaultRetries == 2      \* retries = 2
DefaultDelay == 2000     \* delay = 2000, in ms

\* What a rejected fn() throws: an error object whose message contains '429'
\* ("429"), is another text ("text") or is missing ("none"), with a status.
\* n numbers the invocation that threw it, so that two errors are two objects.
Errors(n) ==
  [ok : {FALSE}, n : {n}, message : {"429", "text", "none"},
   status : {"RESOURCE_EXHAUSTED", "INTERNAL"}]

\* What a resolved fn() returns.
Values(n) == [ok : {TRUE}, n : {n}]

\* The test of the catch block with every error taken for a rate-limit error.
isAnyError(err) == TRUE

\* err.message?.includes('429') || err.status === 'RESOURCE_EXHAUSTED'
isRateLimit(err) == err.message = "429" \/ err.status = "RESOURCE_EXHAUSTED"

\* The delay of the next frame, not doubled.
backoffConstant(d) == d

\* The delay of the next frame: delay * 2.
backoff(d) == d * 2

\* withRetry(fn) is called: the frame starts and invokes fn().
CallWithRetry ==
  /\ pcRetry = "idle"
  /\ pcRetry' = "calling"
  /\ retries' = DefaultRetries
  /\ delay' = DefaultDelay
  /\ UNCHANGED <<agent, store, upload, samples, wav, calls, waits, settled>>

\* fn() resolves: return await fn().
FnResolves(value) ==
  /\ pcRetry = "calling"
  /\ calls' = Append(calls, value)
  /\ pcRetry' = "returned"
  /\ settled' = value
  /\ UNCHANGED <<agent, store, upload, samples, wav, retries, delay, waits>>

\* fn() rejects: the catch block, up to its await of the timer or its throw.
FnRejects(err) ==
  /\ pcRetry = "calling"
  /\ calls' = Append(calls, err)
  /\ IF retries > 0 /\ isRateLimit(err)
       THEN /\ pcRetry' = "waiting"
            /\ settled' = settled
       ELSE /\ pcRetry' = "thrown"
            /\ settled' = err
  /\ UNCHANGED <<agent, store, upload, samples, wav, retries, delay, waits>>

\* The timer of setTimeout(resolve, delay) fires: withRetry(fn, retries - 1,
\* delay * 2) starts and invokes fn().
TimerFires ==
  /\ pcRetry = "waiting"
  /\ waits' = Append(waits, delay)
  /\ retries' = retries - 1
  /\ delay' = backoff(delay)
  /\ pcRetry' = "calling"
  /\ UNCHANGED <<agent, store, upload, samples, wav, calls, settled>>

NextRetry ==
  \/ CallWithRetry
  \/ \E value \in Values(Len(calls) + 1) : FnResolves(value)
  \/ \E err \in Errors(Len(calls) + 1) : FnRejects(err)
  \/ TimerFires

SpecRetry == Init /\ [][NextRetry]_vars

\* The invocations of fn made so far.
Invocations == Len(calls) + (IF pcRetry = "calling" THEN 1 ELSE 0)

\* A rate-limit failure as the claims define it: the message contains '429'
\* or the status is RESOURCE_EXHAUSTED.
RateLimited(outcome) ==
  ~outcome.ok /\ (outcome.message = "429" \/ outcome.status = "RESOURCE_EXHAUSTED")

\* Every fn() so far failed with a rate-limit error.
AllRateLimited == \A k \in DOMAIN calls : RateLimited(calls[k])

\* C14: with a rate-limit failure on every attempt fn is invoked exactly 3
\* times, after waits of 2000 ms and 4000 ms, and the last error is rethrown;
\* never more than 2 retries are made; an attempt that succeeds is the last
\* invocation and its result is what withRetry returns.
C14_RetryOnRateLimit ==
  /\ Invocations <= DefaultRetries + 1
  /\ (AllRateLimited /\ pcRetry \in {"returned", "thrown"}) =>
       /\ pcRetry = "thrown"
       /\ Invocations = 3
       /\ waits = <<2000, 4000>>
       /\ settled = calls[3]
  /\ (AllRateLimited /\ pcRetry \in {"calling", "waiting"}) =>
       waits = SubSeq(<<2000, 4000>>, 1, Len(waits))
  /\ \A k \in DOMAIN calls :
       calls[k].ok => (k = Invocations /\ pcRetry = "returned" /\ settled = calls[k])

\* Three attempts failed with rate-limit errors, told by message and by
\* status, and the third error was rethrown.
C14_Witness ==
  /\ pcRetry = "thrown" /\ Len(calls) = 3 /\ AllRateLimited
  /\ calls[1].message = "429" /\ calls[1].status = "INTERNAL"
  /\ calls[2].message = "none" /\ calls[2].status = "RESOURCE_EXHAUSTED"
  /\ settled = calls[3]

\* C15: an error that is not a rate-limit error, on whichever attempt, is the
\* last invocation of fn, is followed by no delay and is rethrown unchanged.
C15_OtherErrorsPropagate ==
  \A k \in DOMAIN calls :
    (~calls[k].ok /\ ~RateLimited(calls[k])) =>
      /\ k = Invocations
      /\ Len(waits) = k - 1
      /\ pcRetry = "thrown"
      /\ settled = calls[k]

\* A rate-limit failure, then another error on the second attempt, rethrown.
C15_Witness ==
  /\ pcRetry = "thrown" /\ Len(calls) = 2 /\ waits = <<2000>>
  /\ RateLimited(calls[1])
  /\ calls[2].message = "text" /\ calls[2].status = "INTERNAL"
  /\ settled = calls[2]

----------------------------------------------------------------------------
\* The history store of src/server.ts: table history and its three routes.

\* The bodies a client posts: the six fields of a history record.
Bodies ==
  { [image_data |-> "chart1", signal_type |-> "BUY", confidence |-> 87,
     timeframe |-> "1m", explanation |-> "breakout", language |-> "en"],
    [image_data |-> "chart2", signal_type |-> "HOLD", confidence |-> 40,
     timeframe |-> "5m", explanation |-> "sideways", language |-> "bn"] }

\* The ids a client may name in DELETE /api/history/:id, those of no row included.
Ids == 1..(MaxPosts + 1)

Max(S) == CHOOSE x \in S : \A y \in S : y <= x

\* The rowid of a new row of a table without AUTOINCREMENT: one more than the
\* largest rowid in the table.
NewRowidReused(rs, seq) == Max({r.id : r \in rs} \cup {0}) + 1

\* The rowid of a new row, id INTEGER PRIMARY KEY AUTOINCREMENT: one more than
\* the largest rowid the table ever held.
NewRowid(rs, seq) == Max({r.id : r \in rs} \cup {seq}) + 1

\* The INSERT of the POST route: the six fields bound in column order, id and
\* created_at from their defaults.
InsertRow(rs, seq, body, time) ==
  [id |-> NewRowid(rs, seq), created_at |-> time,
   image_data |-> body.image_data, signal_type |-> body.signal_type,
   confidence |-> body.confidence, timeframe |-> body.timeframe,
   explanation |-> body.explanation, language |-> body.language]

\* A DELETE that also removes the rows with a smaller id.
DeleteRowAndOlder(rs, id) == {r \in rs : r.id > id}

\* DELETE FROM history WHERE id = ?
DeleteRow(rs, id) == {r \in rs : r.id # id}

\* SELECT * FROM history ORDER BY created_at DESC: the rows by descending
\* created_at; SQL leaves the order of rows with equal created_at open.
Select(rs) ==
  {l \in [1..Cardinality(rs) -> rs] :
     /\ \A p, q \in DOMAIN l : p # q => l[p] # l[q]
     /\ \A p, q \in DOMAIN l : p < q => l[p].created_at >= l[q].created_at}

\* A response of a history route.
Response(status, kind, id, list) ==
  [status |-> status, kind |-> kind, id |-> id, list |-> list]

\* The catch block of a route: the statement threw.
Failed == Response(500, "error", 0, <<>>)

\* A second passes.
Tick ==
  /\ now < MaxClock
  /\ now' = now + 1
  /\ UNCHANGED <<agent, retry, upload, samples, wav, rows, sqliteSequence, response, inserted>>

\* GET /api/history
GetHistory(fails) ==
  /\ IF fails
       THEN response' = Failed
       ELSE \E l \in Select(rows) : response' = Response(200, "list", 0, l)
  /\ UNCHANGED <<agent, retry, upload, samples, wav, rows, sqliteSequence, now, inserted>>

\* POST /api/history
PostHistory(body, fails) ==
  /\ Cardinality(inserted) < MaxPosts
  /\ IF fails
       THEN /\ response' = Failed
            /\ UNCHANGED <<rows, sqliteSequence, inserted>>
       ELSE LET row == InsertRow(rows, sqliteSequence, body, now)
            IN /\ rows' = rows \cup {row}
               /\ sqliteSequence' = row.id
               /\ inserted' = inserted \cup {row.id}
               /\ response' = Response(200, "id", row.id, <<>>)
  /\ UNCHANGED <<agent, retry, upload, samples, wav, now>>

\* DELETE /api/history/:id
DeleteHistory(id, fails) ==
  /\ IF fails
       THEN /\ response' = Failed
            /\ rows' = rows
       ELSE /\ rows' = DeleteRow(rows, id)
            /\ response' = Response(200, "success", 0, <<>>)
  /\ UNCHANGED <<agent, retry, upload, samples, wav, sqliteSequence, now, inserted>>

NextStore ==
  \/ Tick
  \/ \E fails \in BOOLEAN : GetHistory(fails)
  \/ \E body \in Bodies, fails \in BOOLEAN : PostHistory(body, fails)
  \/ \E id \in Ids, fails \in BOOLEAN : DeleteHistory(id, fails)

SpecStore == Init /\ [][NextStore]_vars

\* The six body fields of a row.
BodyOf(r) ==
  [image_data |-> r.image_data, signal_type |-> r.signal_type,
   confidence |-> r.confidence, timeframe |-> r.timeframe,
   explanation |-> r.explanation, language |-> r.language]

\* C16: GET /api/history answers with exactly the rows of the table, a row
\* inserted later (a larger id) before a row inserted earlier, also when both
\* have the same created_at.
C16_NewestFirst ==
  [][GetHistory(FALSE) =>
       LET l == response'.list
       IN /\ Len(l) = Cardinality(rows)
          /\ {l[p] : p \in DOMAIN l} = rows
          /\ \A p, q \in DOMAIN l : p < q => l[p].id > l[q].id]_vars

\* C17: a successful POST inserts exactly one row, holding the six fields of
\* the body, and answers with its id, which no row ever inserted had.
C17_PostInsertsFreshId ==
  [][\A body \in Bodies :
       PostHistory(body, FALSE) =>
         \E r \in rows' :
           /\ r \notin rows
           /\ rows' = rows \cup {r}
           /\ BodyOf(r) = body
           /\ response' = Response(200, "id", r.id, <<>>)
           /\ r.id \notin inserted]_vars

\* Row 2 was deleted while it had the largest id, and a third row inserted.
C17_Witness ==
  /\ inserted = {1, 2, 3}
  /\ {r.id : r \in rows} = {1, 3}
  /\ response = Response(200, "id", 3, <<>>)

\* C18: DELETE removes the row with that id, if there is one, and no other
\* row, and answers success; naming an id no row has, as a repeated DELETE
\* does, changes nothing.
C18_DeleteOnlyThatRow ==
  [][\A id \in Ids :
       DeleteHistory(id, FALSE) =>
         /\ rows' = {r \in rows : r.id # id}
         /\ response' = Response(200, "success", 0, <<>>)
         /\ ((\A r \in rows : r.id # id) => rows' = rows)
         /\ UNCHANGED <<sqliteSequence, inserted>>]_vars

\* One of three rows has been deleted, the last request having been a DELETE.
C18_Witness ==
  /\ inserted = {1, 2, 3}
  /\ {r.id : r \in rows} = {1, 3}
  /\ response = Response(200, "success", 0, <<>>)

----------------------------------------------------------------------------
\* The upload handler of src/App.tsx: handleFileUpload and processImage.  A
\* file can be chosen while an earlier one is still being analysed; every
\* accepted file is a job, with the language of the render that accepted it
\* (processImage and t are those of that render).

Signals == {"BUY", "SELL", "HOLD"}

\* How the fetch of POST /api/history settles: a 2xx response, a 500 response
\* (fetch resolves for any status), or a rejected promise (the request failed).
SaveOutcomes == {"ok", "http500", "failed"}

\* handleFileUpload: a file of an unsupported type is refused, another one is
\* handed to the FileReader.
Upload(valid) ==
  /\ Len(jobs) < MaxUploads
  /\ IF valid
       THEN /\ jobs' = Append(jobs, [pc |-> "reading", lang |-> lang, result |-> "none"])
            /\ UNCHANGED <<image, signal, appError>>
       ELSE /\ appError' = Message("InvalidFormat", lang)
            /\ image' = 0
            /\ signal' = "none"
            /\ jobs' = jobs
  /\ UNCHANGED <<agent, retry, store, samples, wav, analyzing, followed>>

\* reader.onloadend: setImage, then processImage up to its await of analyzeChart.
FileLoaded(j) ==
  /\ jobs[j].pc = "reading"
  /\ image' = j
  /\ analyzing' = TRUE
  /\ appError' = NoError
  /\ signal' = "none"
  /\ jobs' = [jobs EXCEPT ![j].pc = "analyzing"]
  /\ UNCHANGED <<agent, retry, store, samples, wav, followed>>

\* analyzeChart resolves: setSignal(result), then the fetch of the history save.
AnalyzeResolved(j, result) ==
  /\ jobs[j].pc = "analyzing"
  /\ signal' = result
  /\ jobs' = [jobs EXCEPT ![j].pc = "saving", ![j].result = result]
  /\ UNCHANGED <<agent, retry, store, samples, wav, image, analyzing, appError, followed>>

\* The catch and finally blocks of processImage for an error thrown in job j.
ProcessImageCatch(j, quota) ==
  /\ appError' = Message(IF quota THEN "QuotaExceeded" ELSE "AnalysisFailed", jobs[j].lang)
  /\ analyzing' = FALSE
  /\ jobs' = [jobs EXCEPT ![j].pc = "done"]
  /\ UNCHANGED <<agent, retry, store, samples, wav, image, signal, followed>>

\* analyzeChart rejects, with a rate-limit error or another one.
AnalyzeRejected(j, quota) ==
  /\ jobs[j].pc = "analyzing"
  /\ ProcessImageCatch(j, quota)

\* The fetch of the history save settles.  A response, whatever its status,
\* lets processImage go on to fetchHistory() and speakSignal(result) and to
\* its finally block; a rejection is caught by the catch block, its message
\* ("Failed to fetch") not being that of a rate limit.
SaveSettled(j, outcome) ==
  /\ jobs[j].pc = "saving"
  /\ IF outcome = "failed"
       THEN ProcessImageCatch(j, FALSE)
       ELSE /\ followed' = followed \cup {j}
            /\ analyzing' = FALSE
            /\ jobs' = [jobs EXCEPT ![j].pc = "done"]
            /\ UNCHANGED <<agent, retry, store, samples, wav, image, signal, appError>>

NextApp ==
  \/ \E valid \in BOOLEAN : Upload(valid)
  \/ \E j \in DOMAIN jobs : FileLoaded(j)
  \/ \E j \in DOMAIN jobs, result \in Signals : AnalyzeResolved(j, result)
  \/ \E j \in DOMAIN jobs, quota \in BOOLEAN : AnalyzeRejected(j, quota)
  \/ \E j \in DOMAIN jobs, outcome \in SaveOutcomes : SaveSettled(j, outcome)
  \/ ToggleLang

SpecApp == Init /\ [][NextApp]_vars

\* C19: a history save that fails, by a 500 response or by a failed request,
\* leaves the signal displayed, ends with analyzing false and does not set
\* the error of the page.
C19_SaveFailureNonFatal ==
  [][\A j \in DOMAIN jobs, outcome \in {"http500", "failed"} :
       SaveSettled(j, outcome) =>
         /\ signal' = signal
         /\ ~analyzing'
         /\ appError' = appError]_vars

\* C20: an error message set while the language is Bengali, by the voice
\* agent or by the upload handler, is the Bengali text.
C20_ErrorInActiveLocale ==
  /\ [][(mounted /\ lang = "bn" /\ error' # error /\ error' # NoError) =>
          error'.text = "bn"]_vars
  /\ [][(lang = "bn" /\ appError' # appError /\ appError' # NoError) =>
          appError'.text = "bn"]_vars

\* The processImage calls still in flight.
Running == {j \in DOMAIN jobs : jobs[j].pc \in {"analyzing", "saving"}}

\* Every file accepted has been processed to the end.
AllDone == \A j \in DOMAIN jobs : jobs[j].pc = "done"

\* C29: once every upload has been processed, the signal displayed is the
\* result for the image displayed, the one uploaded last.
C29_SignalOfLatestImage ==
  (AllDone /\ image # 0) => signal = jobs[image].result

\* C30: analyzing is true exactly while a processImage call is in flight.
C30_AnalyzingWhileInFlight == analyzing <=> Running # {}

----------------------------------------------------------------------------
\* The sample conversions of src/LiveVoiceAgent.tsx: resample and the 16-bit
\* encoding of processor.onaudioprocess, the decoding of playNextChunk.  A
\* sample is a fraction, kept as a numerator over the denominator den of its
\* array; an array is its length and its elements at 0 .. length - 1.  The
\* arguments are those the component calls resample with: the frame of the
\* ScriptProcessor, the sample rate of the AudioContext, targetSampleRate.

FrameSize == 4096        \* createScriptProcessor(4096, 1, 1)
TargetRate == 16000      \* targetSampleRate
PcmScale == 32767        \* 0x7FFF

\* The sample rates an AudioContext runs at.
SampleRates ==
  {8000, 11025, 12000, 16000, 22050, 24000, 32000, 44100, 48000, 88200, 96000, 192000}

\* The frames captured: in quarters, silence, a ramp over [-1, 1], a signal
\* that leaves [-1, 1], and a step at the last sample.
Patterns == {"silence", "ramp", "loud", "step"}

Frame(pattern) ==
  [den |-> 4, length |-> FrameSize,
   at |-> [k \in 0..(FrameSize - 1) |->
             CASE pattern = "silence" -> 0
               [] pattern = "ramp" -> (k % 9) - 4
               [] pattern = "loud" -> (k % 13) - 6
               [] pattern = "step" -> IF k = FrameSize - 1 THEN 3 ELSE -3]]

RECURSIVE GCD(_, _)
GCD(a, b) == IF b = 0 THEN a ELSE GCD(b, a % b)

\* ratio = fromRate / toRate, in lowest terms.
ratio(fromRate, toRate) ==
  [num |-> fromRate \div GCD(fromRate, toRate), den |-> toRate \div GCD(fromRate, toRate)]

\* Math.round of a fraction that is not negative: the nearest integer, a half
\* going up.
MathRound(q) == (2 * q.num + q.den) \div (2 * q.den)

\* Math.floor of a fraction that is not negative.
MathFloor(q) == q.num \div q.den

\* The new length taken with Math.floor.
newLengthFloor(length, r) == MathFloor([num |-> length * r.den, den |-> r.num])

\* The new length taken from data.length * ratio.
newLengthInverted(length, r) == MathRound([num |-> length * r.num, den |-> r.den])

\* newLength = Math.round(data.length / ratio)
newLength(length, r) == MathRound([num |-> length * r.den, den |-> r.num])

\* The loop body of resample with the last sample left at the 0 of a new array.
interpolateZeroFill(data, i, r) ==
  LET index == MathFloor([num |-> i * r.num, den |-> r.den])
      frac == (i * r.num) % r.den
  IN IF index + 1 < data.length
       THEN data.at[index] * (r.den - frac) + data.at[index + 1] * frac
       ELSE 0

\* The loop body of resample: result[i], as a numerator over data.den * r.den.
\* pos = i * ratio, index = Math.floor(pos), frac = pos - index (frac is its
\* numerator over r.den).
interpolate(data, i, r) ==
  LET index == MathFloor([num |-> i * r.num, den |-> r.den])
      frac == (i * r.num) % r.den
  IN IF index + 1 < data.length
       THEN data.at[index] * (r.den - frac) + data.at[index + 1] * frac
       ELSE data.at[index] * r.den

resample(data, fromRate, toRate) ==
  IF fromRate = toRate
    THEN data
    ELSE LET r == ratio(fromRate, toRate)
             n == newLength(data.length, r)
         IN [den |-> data.den * r.den, length |-> n,
             at |-> [i \in 0..(n - 1) |-> interpolate(data, i, r)]]

\* The integer part of num / den, den positive.
Trunc(num, den) == IF num >= 0 THEN num \div den ELSE -((-num) \div den)

\* A number stored into an Int16Array: its integer part, modulo 2^16.
ToInt16(num, den) == ((Trunc(num, den) + 32768) % 65536) - 32768

\* The encoding with a scale of 0x8000.
quantize32768(num, den) ==
  ToInt16((IF num > den THEN den ELSE IF num < -den THEN -den ELSE num) * 32768, den)

\* pcm16[i] = Math.max(-1, Math.min(1, x)) * 0x7FFF, for x = num / den.
quantize(num, den) ==
  ToInt16((IF num > den THEN den ELSE IF num < -den THEN -den ELSE num) * PcmScale, den)

\* The processor delivers a frame.
AudioProcess(rate, pattern) ==
  /\ pcCapture = "idle"
  /\ pcCapture' = "framed"
  /\ sampleRate' = rate
  /\ inputData' = Frame(pattern)
  /\ UNCHANGED <<agent, retry, store, upload, wav, resampledData, pcm16, float32>>

Resample ==
  /\ pcCapture = "framed"
  /\ pcCapture' = "resampled"
  /\ resampledData' = resample(inputData, sampleRate, TargetRate)
  /\ UNCHANGED <<agent, retry, store, upload, wav, sampleRate, inputData, pcm16, float32>>

\* The loop that fills pcm16.
Quantize ==
  /\ pcCapture = "resampled"
  /\ pcCapture' = "encoded"
  /\ pcm16' = [length |-> resampledData.length,
               at |-> [i \in 0..(resampledData.length - 1) |->
                         quantize(resampledData.at[i], resampledData.den)]]
  /\ UNCHANGED <<agent, retry, store, upload, wav, sampleRate, inputData, resampledData, float32>>

\* The loop of playNextChunk that fills float32: float32[i] = pcm16[i] / 0x7FFF.
Dequantize ==
  /\ pcCapture = "encoded"
  /\ pcCapture' = "decoded"
  /\ float32' = [den |-> PcmScale, length |-> pcm16.length,
                 at |-> [i \in 0..(pcm16.length - 1) |-> pcm16.at[i]]]
  /\ UNCHANGED <<agent, retry, store, upload, wav, sampleRate, inputData, resampledData, pcm16>>

NextSamples ==
  \/ \E rate \in SampleRates, pattern \in Patterns : AudioProcess(rate, pattern)
  \/ Resample
  \/ Quantize
  \/ Dequantize

SpecSamples == Init /\ [][NextSamples]_vars

\* resample has returned.
Resampled == pcCapture \in {"resampled", "encoded", "decoded"}

Abs(x) == IF x >= 0 THEN x ELSE -x

\* C21: for fromRate # toRate the result has round(data.length * toRate /
\* fromRate) samples: the integer n with n - 1/2 <= length * toRate / fromRate
\* < n + 1/2.
C21_ResampledLength ==
  (Resampled /\ sampleRate # TargetRate) =>
    LET n == resampledData.length
    IN /\ (2 * n - 1) * sampleRate <= 2 * inputData.length * TargetRate
       /\ 2 * inputData.length * TargetRate < (2 * n + 1) * sampleRate

\* A frame of 4096 samples at 48000 Hz has been resampled to 1365 samples.
C21_Witness ==
  /\ Resampled /\ sampleRate = 48000
  /\ inputData.length = 4096 /\ resampledData.length = 1365

\* C22, as stated: the result has round(len * from / to) samples.
C22_LengthFromOverTo ==
  (Resampled /\ sampleRate # TargetRate) =>
    LET n == resampledData.length
    IN /\ (2 * n - 1) * TargetRate <= 2 * inputData.length * sampleRate
       /\ 2 * inputData.length * sampleRate < (2 * n + 1) * TargetRate

\* C22, amended: the result has round(len * to / from) samples, no more than
\* half a sample from len * to / from, fewer than len when from > to and more
\* when from < to.
C22_LengthToOverFrom ==
  (Resampled /\ sampleRate # TargetRate) =>
    LET n == resampledData.length
    IN /\ 2 * Abs(n * sampleRate - inputData.length * TargetRate) <= sampleRate
       /\ sampleRate > TargetRate => n < inputData.length
       /\ sampleRate < TargetRate => n > inputData.length

\* A frame of 4096 samples at 8000 Hz has been resampled to 8192 samples.
C22_Witness ==
  /\ Resampled /\ sampleRate = 8000
  /\ inputData.length = 4096 /\ resampledData.length = 8192

\* C23: every output index i maps to a source index floor(i * fromRate /
\* toRate) within the input, and where that index has no upper neighbour the
\* output sample is the last input sample, unweighted.
C23_BoundarySample ==
  (Resampled /\ sampleRate # TargetRate) =>
    \A i \in 0..(resampledData.length - 1) :
      LET index == (i * sampleRate) \div TargetRate
          last == inputData.length - 1
      IN /\ index \in 0..last
         /\ index + 1 > last =>
              resampledData.at[i] * inputData.den = inputData.at[last] * resampledData.den

\* A frame whose last sample differs from the others has been upsampled, so
\* that the last output samples have no upper neighbour.
C23_Witness ==
  /\ Resampled /\ sampleRate = 8000
  /\ inputData = Frame("step")
  /\ resampledData.at[resampledData.length - 1] * inputData.den = 3 * resampledData.den

\* C24: a sample x in [-1, 1], encoded and decoded, is within 1/32767 of x,
\* and its encoding lies in [-32767, 32767].
C24_QuantizeRoundTrip ==
  pcCapture = "decoded" =>
    \A i \in 0..(resampledData.length - 1) :
      Abs(resampledData.at[i]) <= resampledData.den =>
        /\ pcm16.at[i] \in -32767..32767
        /\ 32767 * Abs(resampledData.at[i] * float32.den - float32.at[i] * resampledData.den)
             <= resampledData.den * float32.den

\* A ramp over [-1, 1], resampled from 32000 Hz, has been encoded and decoded:
\* it holds the samples 1 and -1 and samples that are no multiple of 1/32767.
C24_Witness ==
  /\ pcCapture = "decoded" /\ sampleRate = 32000 /\ inputData = Frame("ramp")
  /\ \E i \in 0..(pcm16.length - 1) : pcm16.at[i] = 32767
  /\ \E i \in 0..(pcm16.length - 1) : pcm16.at[i] = -32767
  /\ \E i \in 0..(pcm16.length - 1) :
       float32.at[i] * resampledData.den # resampledData.at[i] * float32.den

----------------------------------------------------------------------------
\* addWavHeader of src/server.ts, as generateSpeech calls it.  A byte is a
\* number in 0 .. 255, a base64 character its index in the alphabet (0 .. 63)
\* and 64 for the padding character.

WavSampleRate == 24000   \* sampleRate: number = 24000

\* The byte values the audio is made of.
PcmBytes == {0, 1, 128, 255}

RECURSIVE BytesUpTo(_)
BytesUpTo(n) ==
  IF n = 0 THEN {<<>>}
  ELSE BytesUpTo(n - 1) \cup
       {Append(b, x) : b \in {c \in BytesUpTo(n - 1) : Len(c) = n - 1}, x \in PcmBytes}

\* btoa of the string whose char codes are bytes.
RECURSIVE btoa(_)
btoa(bytes) ==
  IF Len(bytes) = 0 THEN <<>>
  ELSE IF Len(bytes) = 1
    THEN <<bytes[1] \div 4, (bytes[1] % 4) * 16, 64, 64>>
  ELSE IF Len(bytes) = 2
    THEN <<bytes[1] \div 4, (bytes[1] % 4) * 16 + bytes[2] \div 16, (bytes[2] % 16) * 4, 64>>
  ELSE <<bytes[1] \div 4, (bytes[1] % 4) * 16 + bytes[2] \div 16,
         (bytes[2] % 16) * 4 + bytes[3] \div 64, bytes[3] % 64>>
       \o btoa(SubSeq(bytes, 4, Len(bytes)))

\* atob, as the char codes of the string it returns.
RECURSIVE atob(_)
atob(chars) ==
  IF Len(chars) = 0 THEN <<>>
  ELSE IF chars[3] = 64
    THEN <<chars[1] * 4 + chars[2] \div 16>>
  ELSE IF chars[4] = 64
    THEN <<chars[1] * 4 + chars[2] \div 16, (chars[2] % 16) * 16 + chars[3] \div 4>>
  ELSE <<chars[1] * 4 + chars[2] \div 16, (chars[2] % 16) * 16 + chars[3] \div 4,
         (chars[3] % 4) * 64 + chars[4]>>
       \o atob(SubSeq(chars, 5, Len(chars)))

\* view.setUint32(offset, value, false): the bytes written, highest first.
setUint32BE(value) ==
  <<value \div 16777216, (value \div 65536) % 256, (value \div 256) % 256, value % 256>>

\* view.setUint32(offset, value, true): the bytes written, lowest first.
setUint32LE(value) ==
  <<value % 256, (value \div 256) % 256, (value \div 65536) % 256, value \div 16777216>>

\* view.setUint16(offset, value, true)
setUint16LE(value) == <<value % 256, (value \div 256) % 256>>

\* addWavHeader with the file length written highest byte first.
addWavHeaderBigEndian(base64, rate) ==
  LET pcmData == atob(base64)
      numChannels == 1
      bitsPerSample == 16
      byteRate == (rate * numChannels * bitsPerSample) \div 8
      blockAlign == (numChannels * bitsPerSample) \div 8
      dataSize == Len(pcmData)
      header ==
        setUint32BE(1380533830) \o setUint32BE(36 + dataSize) \o setUint32BE(1463899717)
        \o setUint32BE(1718449184) \o setUint32LE(16) \o setUint16LE(1)
        \o setUint16LE(numChannels) \o setUint32LE(rate) \o setUint32LE(byteRate)
        \o setUint16LE(blockAlign) \o setUint16LE(bitsPerSample)
        \o setUint32BE(1684108385) \o setUint32LE(dataSize)
  IN [scheme |-> "data:audio/wav;base64,", base64 |-> btoa(header \o pcmData)]

\* The header is the fields in the order of their offsets 0, 4, .. 40:
\* 0x52494646 "RIFF", 0x57415645 "WAVE", 0x666d7420 "fmt ", 0x64617461 "data".
addWavHeader(base64, rate) ==
  LET pcmData == atob(base64)
      numChannels == 1
      bitsPerSample == 16
      byteRate == (rate * numChannels * bitsPerSample) \div 8
      blockAlign == (numChannels * bitsPerSample) \div 8
      dataSize == Len(pcmData)
      header ==
        setUint32BE(1380533830) \o setUint32LE(36 + dataSize) \o setUint32BE(1463899717)
        \o setUint32BE(1718449184) \o setUint32LE(16) \o setUint16LE(1)
        \o setUint16LE(numChannels) \o setUint32LE(rate) \o setUint32LE(byteRate)
        \o setUint16LE(blockAlign) \o setUint16LE(bitsPerSample)
        \o setUint32BE(1684108385) \o setUint32LE(dataSize)
  IN [scheme |-> "data:audio/wav;base64,", base64 |-> btoa(header \o pcmData)]

\* generateSpeech reads the inline audio of the response: the base64 of the
\* service's bytes.
SpeechReceived(bytes) ==
  /\ pcWav = "idle"
  /\ pcWav' = "received"
  /\ pcm' = bytes
  /\ pcmBase64' = btoa(bytes)
  /\ UNCHANGED <<agent, retry, store, upload, samples, wavUrl>>

\* if (!base64Audio) throw new Error("Failed to generate audio");
\* return addWavHeader(base64Audio)
AddWavHeader ==
  /\ pcWav = "received"
  /\ IF pcmBase64 = <<>>
       THEN pcWav' = "failed" /\ UNCHANGED wavUrl
       ELSE pcWav' = "wrapped" /\ wavUrl' = addWavHeader(pcmBase64, WavSampleRate)
  /\ UNCHANGED <<agent, retry, store, upload, samples, pcm, pcmBase64>>

NextWav ==
  \/ \E bytes \in BytesUpTo(MaxPcmBytes) : SpeechReceived(bytes)
  \/ AddWavHeader

SpecWav == Init /\ [][NextWav]_vars

\* The bytes of the file behind the data URL.
WavBytes == atob(wavUrl.base64)

\* The unsigned numbers a reader of the file finds at an offset, lowest byte
\* first.
Uint16At(bytes, offset) == bytes[offset + 1] + 256 * bytes[offset + 2]

Uint32At(bytes, offset) ==
  Uint16At(bytes, offset) + 65536 * Uint16At(bytes, offset + 2)

\* C25: the file is 44 header bytes followed by the n bytes of audio,
\* unchanged; its RIFF size is 36 + n, its data size n, and it declares format
\* 1, 1 channel, 24000 Hz, byte rate 48000, block align 2, 16 bits per sample.
C25_WavHeader ==
  pcWav = "wrapped" =>
    /\ Len(WavBytes) = 44 + Len(pcm)
    /\ SubSeq(WavBytes, 45, Len(WavBytes)) = pcm
    /\ Uint32At(WavBytes, 4) = 36 + Len(pcm)
    /\ Uint32At(WavBytes, 40) = Len(pcm)
    /\ Uint16At(WavBytes, 20) = 1
    /\ Uint16At(WavBytes, 22) = 1
    /\ Uint32At(WavBytes, 24) = 24000
    /\ Uint32At(WavBytes, 28) = 48000
    /\ Uint16At(WavBytes, 32) = 2
    /\ Uint16At(WavBytes, 34) = 16

\* Three bytes of audio have been wrapped: the file has 47 bytes, of which the
\* last three are the audio.
C25_Witness ==
  /\ pcWav = "wrapped" /\ pcm = <<255, 0, 128>>
  /\ Len(WavBytes) = 47 /\ WavBytes[45] = 255 /\ WavBytes[47] = 128

====
